---- MODULE Spec2Model ----
(***************************************************************************)
(* Model of src/client/common/configSettings.ts: the PythonSettings        *)
(* snapshot class, its static registry (pythonSettings), the path helpers  *)
(* of the same file, and the host collaborators the class subscribes to.   *)
(*                                                                         *)
(* JavaScript values are records tagged by k: "undefined", "str", "bool",  *)
(* "arr", "obj".  A string that is used as a path is kept as its segments: *)
(*   "python"        [k "str", home FALSE, abs FALSE, segs <<"python">>]   *)
(*   "/a/venv"       [k "str", home FALSE, abs TRUE,  segs <<"a","venv">>] *)
(*   "~/bin/python"  [k "str", home TRUE,  abs FALSE, segs <<"bin",..>>]   *)
(*   ""              [k "str", home FALSE, abs FALSE, segs <<>>]           *)
(* so that "contains a path separator", basename, join and resolve are     *)
(* computed and not assumed.                                               *)
(***************************************************************************)
EXTENDS Integers, Sequences, FiniteSets, TLC

\* ------------------------------------------------------------------ bounds
\* Number of operations (calls of the class's API, host events, timer expiries) in a run.
MaxSteps == 4
\* Number of shell detectors registered with the detector chain.
MaxDetectors == 3

\* ------------------------------------------------------------------ values
Undefined == [k |-> "undefined"]
Str(abs, segs) == [k |-> "str", home |-> FALSE, abs |-> abs, segs |-> segs]
HomeStr(segs) == [k |-> "str", home |-> TRUE, abs |-> FALSE, segs |-> segs]
Bool(b) == [k |-> "bool", b |-> b]
Arr(items) == [k |-> "arr", items |-> items]
Obj(f) == [k |-> "obj", f |-> f]
EmptyStr == Str(FALSE, <<>>)
\* A bare command name: one segment, no separator.
Bare(name) == Str(FALSE, <<name>>)

IsStr(v) == v.k = "str"
\* JavaScript truthiness of a value.
Truthy(v) ==
    CASE v.k = "undefined" -> FALSE
      [] v.k = "str" -> v # EmptyStr
      [] v.k = "bool" -> v.b
      [] OTHER -> TRUE

\* Result of a call that may throw.
Ok(v) == [threw |-> FALSE, v |-> v]
Threw == [threw |-> TRUE, v |-> Undefined]

\* ------------------------------------------------------------- path helpers
\* os.homedir(), __dirname of the compiled module.
HomeDir == Str(TRUE, <<"home", "u">>)
DirName == Str(TRUE, <<"ext", "out">>)

\* pathToCheck.indexOf(path.sep) === -1 is the negation of this.
HasSep(p) == p.abs \/ p.home \/ Len(p.segs) > 1

\* untildify(p): TypeError for a non-string, "~" or "~/x" expanded to the home directory.
untildify(p) ==
    IF ~IsStr(p) THEN Threw
    ELSE IF p.home THEN Ok(Str(TRUE, HomeDir.segs \o p.segs))
    ELSE Ok(p)

\* path.join(dir, names...), path.resolve(root, rel), path.basename, path.dirname.
PathJoin(dir, names) == Str(dir.abs, dir.segs \o names)
PathResolve(root, p) == Str(TRUE, root.segs \o p.segs)
Basename(p) == IF Len(p.segs) = 0 THEN "" ELSE p.segs[Len(p.segs)]
\* basename(p) === dirname(p): only "x/x" among the modelled paths.
BasenameIsDirname(p) == ~p.abs /\ Len(p.segs) = 2 /\ p.segs[1] = p.segs[2]

\* A version without the bare-name return: every relative string is resolved.
getAbsolutePathResolveAll(pathToCheck, rootDir, testExecution) ==
    LET root == IF Truthy(rootDir) THEN rootDir ELSE DirName
        u == untildify(pathToCheck)
    IN  IF u.threw THEN Threw
        ELSE IF testExecution /\ ~Truthy(u.v) THEN Ok(root)
        ELSE IF u.v.abs THEN Ok(u.v)
        ELSE Ok(PathResolve(root, u.v))

\* getAbsolutePath(pathToCheck, rootDir): rootDir is an fsPath string or undefined.
getAbsolutePath(pathToCheck, rootDir, testExecution) ==
    LET root == IF Truthy(rootDir) THEN rootDir ELSE DirName
        u == untildify(pathToCheck)
    IN  IF u.threw THEN Threw
        ELSE IF testExecution /\ ~Truthy(u.v) THEN Ok(root)
        ELSE IF ~HasSep(u.v) THEN Ok(u.v)
        ELSE IF u.v.abs THEN Ok(u.v)
        ELSE Ok(PathResolve(root, u.v))

KnownPythonExecutables ==
    << "python", "python4", "python3.6", "python3.5", "python3", "python2.7",
       "python2", "python3.7", "python3.8", "python3.9" >>

\* `${executableName}.exe`
Exe(name) ==
    CASE name = "python" -> "python.exe"
      [] name = "python4" -> "python4.exe"
      [] name = "python3.6" -> "python3.6.exe"
      [] name = "python3.5" -> "python3.5.exe"
      [] name = "python3" -> "python3.exe"
      [] name = "python2.7" -> "python2.7.exe"
      [] name = "python2" -> "python2.exe"
      [] name = "python3.7" -> "python3.7.exe"
      [] name = "python3.8" -> "python3.8.exe"
      [] name = "python3.9" -> "python3.9.exe"
      [] OTHER -> name

\* String.prototype.toLowerCase on the file names the model uses.
ToLowerCase(name) ==
    CASE name = "Python.exe" -> "python.exe"
      [] name = "PYTHON3.EXE" -> "python3.exe"
      [] OTHER -> name

\* name.startsWith('python') on the file names the model uses.
StartsWithPython(name) ==
    \/ \E i \in 1..Len(KnownPythonExecutables) :
          name = KnownPythonExecutables[i] \/ name = Exe(KnownPythonExecutables[i])
    \/ name \in {"pythonw", "python3.11"}

\* isValidPythonPath(pythonPath): fs.existsSync and the basename prefix check.
isValidPythonPath(pythonPath, fileSystem, windows) ==
    /\ pythonPath \in fileSystem
    /\ StartsWithPython(IF windows THEN ToLowerCase(Basename(pythonPath))
                        ELSE Basename(pythonPath))

\* A loop that tries <dir>/<name> for every name before any subdirectory layout.
RECURSIVE ProbeKnownDirectFirst(_, _, _, _)
ProbeKnownDirectFirst(pythonPath, i, fileSystem, windows) ==
    IF i > 2 * Len(KnownPythonExecutables) THEN pythonPath
    ELSE LET n == Len(KnownPythonExecutables)
             known == KnownPythonExecutables[IF i <= n THEN i ELSE i - n]
             name == IF windows THEN Exe(known) ELSE known
             probe == IF i <= n THEN PathJoin(pythonPath, <<name>>)
                      ELSE PathJoin(pythonPath, <<IF windows THEN "Scripts" ELSE "bin", name>>)
         IN  IF isValidPythonPath(probe, fileSystem, windows) THEN probe
             ELSE ProbeKnownDirectFirst(pythonPath, i + 1, fileSystem, windows)

\* A loop that, finding nothing, returns its first guess instead of the candidate.
RECURSIVE ProbeKnownGuess(_, _, _, _)
ProbeKnownGuess(pythonPath, i, fileSystem, windows) ==
    IF i > Len(KnownPythonExecutables)
    THEN PathJoin(pythonPath, <<IF windows THEN "python.exe" ELSE "python">>)
    ELSE LET name == IF windows THEN Exe(KnownPythonExecutables[i])
                     ELSE KnownPythonExecutables[i]
             direct == PathJoin(pythonPath, <<name>>)
             nested == PathJoin(pythonPath, <<IF windows THEN "Scripts" ELSE "bin", name>>)
         IN  IF isValidPythonPath(direct, fileSystem, windows) THEN direct
             ELSE IF isValidPythonPath(nested, fileSystem, windows) THEN nested
             ELSE ProbeKnownGuess(pythonPath, i + 1, fileSystem, windows)

\* The for loop of getPythonExecutable from index i on.
RECURSIVE ProbeKnown(_, _, _, _)
ProbeKnown(pythonPath, i, fileSystem, windows) ==
    IF i > Len(KnownPythonExecutables) THEN pythonPath
    ELSE LET name == IF windows THEN Exe(KnownPythonExecutables[i])
                     ELSE KnownPythonExecutables[i]
             direct == PathJoin(pythonPath, <<name>>)
             nested == PathJoin(pythonPath, <<IF windows THEN "Scripts" ELSE "bin", name>>)
         IN  IF isValidPythonPath(direct, fileSystem, windows) THEN direct
             ELSE IF isValidPythonPath(nested, fileSystem, windows) THEN nested
             ELSE ProbeKnown(pythonPath, i + 1, fileSystem, windows)

\* getPythonExecutable(pythonPath)
getPythonExecutable(pythonPath, fileSystem, windows) ==
    LET u == untildify(pythonPath)
    IN  IF u.threw THEN Threw
        ELSE IF u.v = Bare("python") \/ ~HasSep(u.v) \/ BasenameIsDirname(u.v) THEN Ok(u.v)
        ELSE IF isValidPythonPath(u.v, fileSystem, windows) THEN Ok(u.v)
        ELSE Ok(ProbeKnown(u.v, 1, fileSystem, windows))

\* ------------------------------------------------- raw configuration store
\* DEFAULT_INTERPRETER_SETTING of ./constants.
DEFAULT_INTERPRETER_SETTING == Bare("python")

WorkspaceFolderVar == "${workspaceFolder}"

\* SystemVariables.resolveAny on a string: a leading ${workspaceFolder} placeholder
\* is replaced by the workspace root; with no root it is left verbatim.
ResolveString(s, workspaceRoot) ==
    IF /\ ~s.abs /\ ~s.home /\ Len(s.segs) >= 1 /\ s.segs[1] = WorkspaceFolderVar
       /\ IsStr(workspaceRoot)
    THEN Str(TRUE, workspaceRoot.segs \o Tail(s.segs))
    ELSE s

\* SystemVariables.resolveAny(value): strings, arrays of strings and objects with
\* string leaves are resolved; anything else, undefined included, passes through.
resolveAny(value, workspaceRoot) ==
    LET leaf(v) == IF IsStr(v) THEN ResolveString(v, workspaceRoot) ELSE v
    IN  CASE value.k = "str" -> ResolveString(value, workspaceRoot)
          [] value.k = "arr" ->
                Arr([i \in 1..Len(value.items) |-> leaf(value.items[i])])
          [] value.k = "obj" -> Obj([n \in DOMAIN value.f |-> leaf(value.f[n])])
          [] OTHER -> value

\* The 'python' section of the configuration store, as WorkspaceConfiguration.get
\* sees it: a key that is not configured reads as undefined.
CfgDefault ==
    [ pythonPath |-> Bare("python"),
      defaultInterpreterPath |-> EmptyStr,
      venvPath |-> EmptyStr,
      venvFolders |-> Arr(<< >>),
      activeStateToolPath |-> Bare("state"),
      condaPath |-> EmptyStr,
      pipenvPath |-> Bare("pipenv"),
      poetryPath |-> Bare("poetry"),
      autoUpdateLanguageServer |-> Undefined,
      envFile |-> Str(FALSE, <<WorkspaceFolderVar, ".env">>),
      devOptions |-> Arr(<< >>),
      disableInstallationCheck |-> Bool(FALSE),
      globalModuleInstallation |-> Bool(FALSE),
      terminal |-> Obj([activateEnvironment |-> Bool(TRUE)]) ]

\* A customised workspace: relative and templated paths, values of the wrong type.
CfgCustom ==
    [ pythonPath |-> Str(FALSE, <<WorkspaceFolderVar, "venv">>),
      defaultInterpreterPath |-> Str(FALSE, <<"venv", "bin", "python">>),
      venvPath |-> HomeStr(<<"envs">>),
      venvFolders |-> Bare("envs"),
      activeStateToolPath |-> EmptyStr,
      condaPath |-> Str(FALSE, <<"tools", "conda">>),
      pipenvPath |-> HomeStr(<<"bin", "pipenv">>),
      poetryPath |-> Str(TRUE, <<"opt", "poetry">>),
      autoUpdateLanguageServer |-> Bool(FALSE),
      envFile |-> Str(FALSE, <<"conf", ".env">>),
      devOptions |-> Bare("DEBUG"),
      disableInstallationCheck |-> Bare("true"),
      globalModuleInstallation |-> Bool(TRUE),
      terminal |-> Obj([activateEnvironment |-> Bool(FALSE),
                        executeInFileDir |-> Bool(TRUE)]) ]

\* A partially configured workspace: no key of the section is set.
CfgAbsent ==
    [ pythonPath |-> Undefined,
      defaultInterpreterPath |-> Undefined,
      venvPath |-> Undefined,
      venvFolders |-> Undefined,
      activeStateToolPath |-> Undefined,
      condaPath |-> Undefined,
      pipenvPath |-> Undefined,
      poetryPath |-> Undefined,
      autoUpdateLanguageServer |-> Undefined,
      envFile |-> Undefined,
      devOptions |-> Undefined,
      disableInstallationCheck |-> Undefined,
      globalModuleInstallation |-> Undefined,
      terminal |-> Undefined ]

RawConfigs == {CfgDefault, CfgCustom, CfgAbsent}

\* Values interpreterPathService.get(resource) may return.
InterpreterPaths == {Undefined, Str(TRUE, <<"a", "venv">>)}

\* ------------------------------------------------------ PythonSettings fields
\* The field initialisers of the class.
InitialFields ==
    [ pythonPath |-> Bare("python"),
      defaultInterpreterPath |-> EmptyStr,
      envFile |-> EmptyStr,
      venvPath |-> EmptyStr,
      venvFolders |-> Arr(<< >>),
      activeStateToolPath |-> EmptyStr,
      condaPath |-> EmptyStr,
      pipenvPath |-> EmptyStr,
      poetryPath |-> EmptyStr,
      devOptions |-> Arr(<< >>),
      terminal |-> Undefined,
      terminalRef |-> 0,
      disableInstallationChecks |-> FALSE,
      globalModuleInstallation |-> FALSE,
      autoUpdateLanguageServer |-> Bool(TRUE) ]

\* What a recompute reads besides the raw configuration: the object's root and
\* interpreterPathService, that service's value, the disk, the platform, the test flag.
Env(workspaceRoot, hasService, servicePath, fileSystem, windows, testExecution) ==
    [ workspaceRoot |-> workspaceRoot, hasService |-> hasService,
      servicePath |-> servicePath, fileSystem |-> fileSystem,
      windows |-> windows, testExecution |-> testExecution ]

\* try { x = call } catch (ex) { x = value }
TryCatch(call, value) == IF call.threw THEN value ELSE call.v

\* set pythonPath(value)
SetPythonPath(f, value, env) ==
    IF f.pythonPath = value THEN f
    ELSE [f EXCEPT !.pythonPath =
              TryCatch(getPythonExecutable(value, env.fileSystem, env.windows), value)]

\* set defaultInterpreterPath(value)
SetDefaultInterpreterPath(f, value, env) ==
    IF f.defaultInterpreterPath = value THEN f
    ELSE [f EXCEPT !.defaultInterpreterPath =
              TryCatch(getPythonExecutable(value, env.fileSystem, env.windows), value)]

\* return getAbsolutePath(this.pythonPath, workspaceRoot): r is how that call
\* ended and f the object with this.pythonPath assigned.
ReturnAbsolutePath(f, r) == [threw |-> r.threw, v |-> r.v, f |-> f]

AbsolutePythonPath(f, env) ==
    ReturnAbsolutePath(f, getAbsolutePath(f.pythonPath, env.workspaceRoot, env.testExecution))

\* getPythonPath(pythonSettings, systemVariables, workspaceRoot): assigns
\* this.pythonPath and returns it absolutized; f is the object as the call left it.
getPythonPath(f, cfg, env) ==
    AbsolutePythonPath(
        SetPythonPath(f, resolveAny(IF env.hasService THEN env.servicePath ELSE cfg.pythonPath,
                                    env.workspaceRoot), env),
        env)

\* value.length > 0
LengthPositive(v) ==
    CASE v.k = "str" -> v # EmptyStr
      [] v.k = "arr" -> Len(v.items) > 0
      [] OTHER -> FALSE

\* x && x.length > 0 ? getAbsolutePath(x, workspaceRoot) : x
ToolPath(raw, env) ==
    LET x == resolveAny(raw, env.workspaceRoot)
    IN  IF Truthy(x) /\ LengthPositive(x)
        THEN getAbsolutePath(x, env.workspaceRoot, env.testExecution)
        ELSE Ok(x)

\* Object.assign(target, source) on the modelled objects; an undefined source adds nothing.
ObjectAssign(target, source) ==
    IF source.k # "obj" THEN target
    ELSE Obj([n \in DOMAIN target.f \cup DOMAIN source.f |->
                 IF n \in DOMAIN source.f THEN source.f[n] ELSE target.f[n]])

\* A terminal block that binds this.terminal to the newly resolved object each time.
UpdateTerminalReplace(f, cfg, env) ==
    LET terminalSettings == resolveAny(cfg.terminal, env.workspaceRoot)
    IN  IF Truthy(terminalSettings)
        THEN [f EXCEPT !.terminal = terminalSettings, !.terminalRef = f.terminalRef + 1]
        ELSE IF env.testExecution
        THEN [f EXCEPT !.terminal = Obj(<< >>), !.terminalRef = f.terminalRef + 1]
        ELSE [f EXCEPT !.terminal = terminalSettings]

\* The terminal block of update: merge into the existing object, or assign.
\* terminalRef counts the objects this.terminal has been bound to (0: never bound).
UpdateTerminal(f, cfg, env) ==
    LET terminalSettings == resolveAny(cfg.terminal, env.workspaceRoot)
    IN  IF Truthy(f.terminal)
        THEN [f EXCEPT !.terminal = ObjectAssign(f.terminal, terminalSettings)]
        ELSE IF Truthy(terminalSettings)
        THEN [f EXCEPT !.terminal = terminalSettings, !.terminalRef = f.terminalRef + 1]
        ELSE IF env.testExecution
        THEN [f EXCEPT !.terminal = Obj(<< >>), !.terminalRef = f.terminalRef + 1]
        ELSE [f EXCEPT !.terminal = terminalSettings]

\* The statements of update after the four tool paths, none of which throws.
UpdateTail(f, cfg, env) ==
    LET devOptions == resolveAny(cfg.devOptions, env.workspaceRoot)
        f1 == [f EXCEPT
                 !.autoUpdateLanguageServer =
                     resolveAny(IF cfg.autoUpdateLanguageServer = Undefined THEN Bool(TRUE)
                                ELSE cfg.autoUpdateLanguageServer, env.workspaceRoot),
                 !.envFile = resolveAny(cfg.envFile, env.workspaceRoot),
                 !.devOptions = IF devOptions.k = "arr" THEN devOptions ELSE Arr(<< >>),
                 !.disableInstallationChecks = (cfg.disableInstallationCheck = Bool(TRUE)),
                 !.globalModuleInstallation = (cfg.globalModuleInstallation = Bool(TRUE))]
    IN  UpdateTerminal(f1, cfg, env)

\* The statements of update, each on the result r of the ones before it: the
\* object's fields so far and whether one of them threw, which ends the call.
\* this.pythonPath = this.getPythonPath(pythonSettings, systemVariables, workspaceRoot)
AssignPythonPath(p, env) ==
    IF p.threw THEN [threw |-> TRUE, f |-> p.f]
    ELSE [threw |-> FALSE, f |-> SetPythonPath(p.f, p.v, env)]

\* defaultInterpreterPath || DEFAULT_INTERPRETER_SETTING
OrDefault(value, default) == IF Truthy(value) THEN value ELSE default

\* this.defaultInterpreterPath, this.venvPath, this.venvFolders
UpdateInterpreterAndVenv(r, cfg, env) ==
    IF r.threw THEN r
    ELSE [ threw |-> FALSE,
           f |-> [ SetDefaultInterpreterPath(
                       r.f,
                       OrDefault(resolveAny(cfg.defaultInterpreterPath, env.workspaceRoot),
                                 DEFAULT_INTERPRETER_SETTING),
                       env)
                   EXCEPT !.venvPath = resolveAny(cfg.venvPath, env.workspaceRoot),
                          !.venvFolders = resolveAny(cfg.venvFolders, env.workspaceRoot) ] ]

\* this[name] = the tool path t, unless computing it threw.
StoreToolPath(r, name, t) ==
    IF t.threw THEN [threw |-> TRUE, f |-> r.f]
    ELSE [threw |-> FALSE, f |-> [r.f EXCEPT ![name] = t.v]]

\* One of the four tool path statements.
UpdateToolPath(r, name, cfg, env) ==
    IF r.threw THEN r ELSE StoreToolPath(r, name, ToolPath(cfg[name], env))

\* The statements after the tool paths.
UpdateRest(r, cfg, env) ==
    IF r.threw THEN r ELSE [threw |-> FALSE, f |-> UpdateTail(r.f, cfg, env)]

\* update(pythonSettings): the statements in source order.  The result is the
\* object's fields when the call ended and whether it ended by throwing.
update(f, cfg, env) ==
    UpdateRest(
        UpdateToolPath(
            UpdateToolPath(
                UpdateToolPath(
                    UpdateToolPath(
                        UpdateInterpreterAndVenv(
                            AssignPythonPath(getPythonPath(f, cfg, env), env), cfg, env),
                        "activeStateToolPath", cfg, env),
                    "condaPath", cfg, env),
                "pipenvPath", cfg, env),
            "poetryPath", cfg, env),
        cfg, env)

\* ---------------------------------------------------------------- the host
FolderA == Str(TRUE, <<"a">>)
FolderB == Str(TRUE, <<"b">>)

\* workspace.workspaceFolders: undefined with no workspace open, else the ordered folders.
WorkspaceFolderLists == { Undefined, Arr(<<FolderA>>), Arr(<<FolderA, FolderB>>) }

\* Resources handed to getInstance: none, files inside the folders, a file outside.
Resources ==
    { Undefined, Str(TRUE, <<"a", "f.py">>), Str(TRUE, <<"a", "g.py">>),
      Str(TRUE, <<"b", "f.py">>), Str(TRUE, <<"c", "f.py">>) }

IsPrefix(s, t) == Len(s) <= Len(t) /\ SubSeq(t, 1, Len(s)) = s

\* workspace.getWorkspaceFolder(resource): the open folder that contains the resource.
getWorkspaceFolder(resource, folders) ==
    IF folders.k # "arr" THEN Undefined
    ELSE LET inside == {i \in 1..Len(folders.items) :
                            IsPrefix(folders.items[i].segs, resource.segs)}
         IN  IF inside = {} THEN Undefined
             ELSE folders.items[CHOOSE i \in inside : TRUE]

\* A lookup without the fallback to the first workspace folder.
getSettingsUriAndTargetNoFallback(resource, folders) ==
    IF Truthy(resource) THEN getWorkspaceFolder(resource, folders) ELSE Undefined

\* getSettingsUriAndTarget(resource, workspace).uri
getSettingsUriAndTarget(resource, folders) ==
    LET workspaceFolder == IF Truthy(resource) THEN getWorkspaceFolder(resource, folders)
                           ELSE Undefined
    IN  IF workspaceFolder = Undefined /\ folders.k = "arr" /\ Len(folders.items) > 0
        THEN folders.items[1]
        ELSE workspaceFolder

\* workspaceFolderUri ? workspaceFolderUri.fsPath : ''
KeyOf(uri) == IF uri = Undefined THEN EmptyStr ELSE uri

\* ------------------------------------------------------------------- state
VARIABLES
    pythonSettings,     \* static registry: scope key -> object
    objs,               \* the PythonSettings objects constructed so far, by identity
    listeners,          \* the host's listeners in registration order, one entry (the
                        \* object) per initialize() call whose disposables are still
                        \* in that object's this.disposables
    workspaceFolders,   \* workspace.workspaceFolders
    config,             \* the 'python' section of the configuration store
    hasService,         \* whether the application passes an interpreterPathService
    servicePath,        \* what interpreterPathService.get returns
    testExecution,      \* isTestExecution()
    changeTimer,        \* the debounce timer of debounceChangeNotification
    configTimer,        \* the debounce timer of debounceConfigChangeNotification
    configChangedFired, \* whether the static configChanged emitter ever fired
    window,             \* what happened since the change timer last left idle
    last,               \* the operation of the latest step and its outcome
    steps,              \* operations so far
    call                \* a call of one of the file's functions on its own: the
                        \* arguments and, once it has returned, the result

vars ==
    << pythonSettings, objs, listeners, workspaceFolders, config, hasService,
       servicePath, testExecution, changeTimer, configTimer, configChangedFired,
       window, last, steps, call >>

\* The platform and the disk of the run.
windows == FALSE
fileSystem == { Str(TRUE, <<"a", "venv", "bin", "python3">>) }

EmptyRegistry == [key \in {} |-> 0]
IdleTimer == [pending |-> FALSE, this |-> 0, event |-> "none"]
\* hit: the objects that recomputed on an external event; cfgHit: those that did on
\* a configuration notification; fired: the objects whose changed event fired, one
\* entry per firing.
EmptyWindow == [hit |-> {}, cfgHit |-> {}, fired |-> << >>]
\* Of a getInstance call: the scope key it computed, the object it returned (0: none)
\* and whether it constructed that object.
Outcome(op, threw) ==
    [op |-> op, threw |-> threw, key |-> EmptyStr, ret |-> 0, created |-> FALSE]
Returned(key, ret, created) ==
    [op |-> "getInstance", threw |-> ret = 0, key |-> key, ret |-> ret, created |-> created]
\* One more operation of the run.
Tick == steps < MaxSteps /\ steps' = steps + 1 /\ UNCHANGED call

\* No function is being called on its own.
NoCall == [fn |-> "none"]

Ids == 1..Len(objs)
ObjEnv(o, path) ==
    Env(o.workspaceRoot, o.hasService, path, fileSystem, windows, testExecution)

\* The number of initialize() calls whose subscriptions object s still holds.
Subscriptions(ls, s) == Cardinality({i \in 1..Len(ls) : ls[i] = s})

Init ==
    /\ pythonSettings = EmptyRegistry
    /\ objs = << >>
    /\ listeners = << >>
    /\ workspaceFolders \in WorkspaceFolderLists
    /\ config \in RawConfigs
    /\ hasService \in BOOLEAN
    /\ servicePath = Undefined
    /\ testExecution \in BOOLEAN
    /\ changeTimer = IdleTimer
    /\ configTimer = IdleTimer
    /\ configChangedFired = FALSE
    /\ window = EmptyWindow
    /\ last = Outcome("init", FALSE)
    /\ steps = 0
    /\ call = NoCall

\* ------------------------------------------------------------ the snapshot
\* new PythonSettings(workspaceFolder, workspace, interpreterPathService) before
\* the constructor calls initialize().  constructed: the constructor returned, so
\* that a caller holds the object; when it throws only the host's listeners do.
NewObject(workspaceFolder, service) ==
    [ workspaceRoot |-> workspaceFolder, hasService |-> service, f |-> InitialFields,
      constructed |-> FALSE ]

\* debounceSync(1) of ./utils/decorators: the decorator wraps the method once, when
\* the class is defined, so the timer and its pending call belong to the method.
\* Every call (re)starts the timer and replaces the pending call: the last one wins.
debounceSync(timer, this, event) == [pending |-> TRUE, this |-> this, event |-> event]

\* @debounceSync(1) debounceChangeNotification(event), called on object s.
debounceChangeNotification(st, s, event) ==
    [st EXCEPT !.timer = debounceSync(st.timer, s, event)]

\* The statements of onDidChanged after this.update(currentConfig) ended as r:
\* when it threw the call ends there, with the fields as update left them.
AfterUpdate(st, s, event, r) ==
    IF r.threw THEN [st EXCEPT !.objs[s].f = r.f]
    ELSE debounceChangeNotification(
             [st EXCEPT !.objs[s].f = r.f, !.hit = @ \cup {s}], s, event)

\* onDidChanged(event) on object s: recompute, then defer the notification.
\* st carries the objects, the timer and the objects that recomputed (hit).
onDidChanged(st, s, event, cfg, path) ==
    AfterUpdate(st, s, event, update(st.objs[s].f, cfg, ObjEnv(st.objs[s], path)))

\* A listener that does not look at what the event affects.
OnDidChangeConfigurationAlways(st, s, event, cfg, path) ==
    onDidChanged(st, s, event, cfg, path)

\* The listener initialize() hands to workspace.onDidChangeConfiguration.
OnDidChangeConfiguration(st, s, event, cfg, path) ==
    IF event = "python" THEN onDidChanged(st, s, event, cfg, path) ELSE st

\* The listener initialize() hands to interpreterPathService.onDidChange.
OnDidChangeInterpreter(st, s, cfg, path) ==
    IF st.objs[s].hasService THEN onDidChanged(st, s, "undefined", cfg, path) ELSE st

\* The host fires an event: every listener of the kind runs, in registration
\* order; a listener that throws does not stop the ones after it.
RECURSIVE Deliver(_, _, _, _, _, _)
Deliver(st, i, kind, event, cfg, path) ==
    IF i > Len(listeners) THEN st
    ELSE IF kind = "config"
    THEN Deliver(OnDidChangeConfiguration(st, listeners[i], event, cfg, path),
                 i + 1, kind, event, cfg, path)
    ELSE Deliver(OnDidChangeInterpreter(st, listeners[i], cfg, path),
                 i + 1, kind, event, cfg, path)

\* The window after one event: a timer started from idle opens a new window.
Observe(st, counted) ==
    LET w == IF ~changeTimer.pending /\ st.timer.pending THEN EmptyWindow ELSE window
    IN  [w EXCEPT !.hit = @ \cup st.hit,
                  !.cfgHit = @ \cup (IF counted THEN st.hit ELSE {})]

\* initialize() on object s: subscribe, then recompute from the current configuration.
initialize(os, ls, s) ==
    LET r == update(os[s].f, config, ObjEnv(os[s], servicePath))
    IN  [objs |-> [os EXCEPT ![s].f = r.f], listeners |-> Append(ls, s), threw |-> r.threw]

\* dispose() of object s: every disposable is disposed and the list emptied.
dispose(ls, s) == SelectSeq(ls, LAMBDA l : l # s)

\* A handler that spares the global key.
onWorkspaceFoldersChangedKeepGlobal(registry, folders) ==
    IF folders.k # "arr" THEN registry
    ELSE LET workspaceKeys == {folders.items[i] : i \in 1..Len(folders.items)} \cup {EmptyStr}
         IN  [key \in DOMAIN registry \cap workspaceKeys |-> registry[key]]

\* onWorkspaceFoldersChanged(): the keys that are no current folder path are deleted.
\* With workspaceFolders undefined the map() call throws and nothing is deleted.
onWorkspaceFoldersChanged(registry, folders) ==
    IF folders.k # "arr" THEN registry
    ELSE LET workspaceKeys == {folders.items[i] : i \in 1..Len(folders.items)}
             activatedWkspcFoldersRemoved == {key \in DOMAIN registry : key \notin workspaceKeys}
         IN  [key \in DOMAIN registry \ activatedWkspcFoldersRemoved |-> registry[key]]

\* ---------------------------------------------------------------- registry
\* A lookup that never finds the key.
RegistryHasNever(registry, key) == FALSE

\* PythonSettings.pythonSettings.has(workspaceFolderKey)
RegistryHas(registry, key) == key \in DOMAIN registry

\* PythonSettings.pythonSettings.set(key, settings)
RegistrySet(registry, key, s) ==
    [k \in DOMAIN registry \cup {key} |-> IF k = key THEN s ELSE registry[k]]

\* PythonSettings.getInstance(resource, workspace, interpreterPathService)
getInstance(resource) ==
    LET uri == getSettingsUriAndTarget(resource, workspaceFolders)
        key == KeyOf(uri)
    IN  /\ Tick
        /\ UNCHANGED << workspaceFolders, config, hasService, servicePath, testExecution,
                        changeTimer, configTimer, configChangedFired, window >>
        /\ IF RegistryHas(pythonSettings, key)
           THEN /\ last' = Returned(key, pythonSettings[key], FALSE)
                /\ UNCHANGED << pythonSettings, objs, listeners >>
           ELSE LET s == Len(objs) + 1
                    r == initialize(Append(objs, NewObject(uri, hasService)), listeners, s)
                IN  /\ objs' = [r.objs EXCEPT ![s].constructed = ~r.threw]
                    /\ listeners' = r.listeners
                    /\ pythonSettings' = IF r.threw THEN pythonSettings
                                         ELSE RegistrySet(pythonSettings, key, s)
                    /\ last' = Returned(key, IF r.threw THEN 0 ELSE s, TRUE)

\* A reset that disposes the snapshots and forgets to clear the map.
DisposeAllKeepRegistry(registry, ls, test) ==
    IF ~test THEN [threw |-> TRUE, registry |-> registry, listeners |-> ls]
    ELSE [ threw |-> FALSE,
           registry |-> registry,
           listeners |-> SelectSeq(ls, LAMBDA l : l \notin {registry[key] : key \in DOMAIN registry}) ]

\* A reset that checks the test context only after doing its work.
DisposeAllThenThrow(registry, ls, test) ==
    [ threw |-> ~test,
      registry |-> [key \in {} |-> 0],
      listeners |-> SelectSeq(ls, LAMBDA l : l \notin {registry[key] : key \in DOMAIN registry}) ]

\* The effect of the static dispose(): outside a test run it throws at once.
DisposeAll(registry, ls, test) ==
    IF ~test THEN [threw |-> TRUE, registry |-> registry, listeners |-> ls]
    ELSE LET items == {registry[key] : key \in DOMAIN registry}
         IN  [ threw |-> FALSE,
               registry |-> EmptyRegistry,
               listeners |-> SelectSeq(ls, LAMBDA l : l \notin items) ]

\* PythonSettings.dispose()
StaticDispose ==
    LET r == DisposeAll(pythonSettings, listeners, testExecution)
    IN  /\ Tick
        /\ pythonSettings' = r.registry
        /\ listeners' = r.listeners
        /\ last' = Outcome("dispose", r.threw)
        /\ UNCHANGED << objs, workspaceFolders, config, hasService, servicePath,
                        testExecution, changeTimer, configTimer, configChangedFired, window >>

\* settings.dispose() on an object the caller holds.
InstanceDispose(s) ==
    /\ Tick
    /\ objs[s].constructed
    /\ listeners' = dispose(listeners, s)
    /\ last' = Outcome("instanceDispose", FALSE)
    /\ UNCHANGED << pythonSettings, objs, workspaceFolders, config, hasService,
                    servicePath, testExecution, changeTimer, configTimer,
                    configChangedFired, window >>

\* settings.register(): the registry is replaced by a new Map, then initialize().
register(s) ==
    /\ Tick
    /\ objs[s].constructed
    /\ LET r == initialize(objs, listeners, s)
       IN  /\ pythonSettings' = EmptyRegistry
           /\ objs' = r.objs
           /\ listeners' = r.listeners
           /\ last' = Outcome("register", r.threw)
    /\ UNCHANGED << workspaceFolders, config, hasService, servicePath, testExecution,
                    changeTimer, configTimer, configChangedFired, window >>

\* ------------------------------------------------------------- host events
\* The configuration store changes and fires onDidChangeConfiguration; event is
\* "python" when the change affects the python section and "other" when not.
ConfigurationChanged(cfg, event) ==
    /\ Tick
    /\ event = "other" => cfg = config
    /\ LET st == Deliver([objs |-> objs, timer |-> changeTimer, hit |-> {}],
                         1, "config", event, cfg, servicePath)
       IN  /\ objs' = st.objs
           /\ changeTimer' = st.timer
           /\ window' = Observe(st, TRUE)
    /\ config' = cfg
    /\ last' = Outcome(IF event = "python" THEN "configurationChanged"
                        ELSE "otherConfigurationChanged", FALSE)
    /\ UNCHANGED << pythonSettings, listeners, workspaceFolders, hasService, servicePath,
                    testExecution, configTimer, configChangedFired >>

\* The preferred executable changes and interpreterPathService fires onDidChange.
InterpreterChanged(path) ==
    /\ Tick
    /\ hasService
    /\ path # servicePath
    /\ LET st == Deliver([objs |-> objs, timer |-> changeTimer, hit |-> {}],
                         1, "interp", "undefined", config, path)
       IN  /\ objs' = st.objs
           /\ changeTimer' = st.timer
           /\ window' = Observe(st, FALSE)
    /\ servicePath' = path
    /\ last' = Outcome("interpreterChanged", FALSE)
    /\ UNCHANGED << pythonSettings, listeners, workspaceFolders, config, hasService,
                    testExecution, configTimer, configChangedFired >>

\* The folder list changes and the host fires onDidChangeWorkspaceFolders: every
\* subscribed object runs onWorkspaceFoldersChanged on the one static registry.
WorkspaceFoldersChanged(folders) ==
    /\ Tick
    /\ folders # workspaceFolders
    /\ workspaceFolders' = folders
    /\ pythonSettings' = IF Len(listeners) > 0
                         THEN onWorkspaceFoldersChanged(pythonSettings, folders)
                         ELSE pythonSettings
    /\ last' = Outcome("workspaceFoldersChanged", Len(listeners) > 0 /\ folders.k # "arr")
    /\ UNCHANGED << objs, listeners, config, hasService, servicePath, testExecution,
                    changeTimer, configTimer, configChangedFired, window >>

\* A debounce timer expires: the pending call runs.  debounceChangeNotification
\* fires this.changed of the object of the pending call; the static
\* debounceConfigChangeNotification fires configChanged.
DebounceExpired ==
    /\ Tick
    /\ changeTimer.pending \/ configTimer.pending
    /\ window' = IF changeTimer.pending
                 THEN [window EXCEPT !.fired = Append(@, changeTimer.this)]
                 ELSE window
    /\ configChangedFired' = (configChangedFired \/ configTimer.pending)
    /\ changeTimer' = IdleTimer
    /\ configTimer' = IdleTimer
    /\ last' = Outcome("debounceExpired", FALSE)
    /\ UNCHANGED << pythonSettings, objs, listeners, workspaceFolders, config,
                    hasService, servicePath, testExecution >>

Next ==
    \/ \E resource \in Resources : getInstance(resource)
    \/ StaticDispose
    \/ \E s \in Ids : InstanceDispose(s)
    \/ \E s \in Ids : register(s)
    \/ \E cfg \in RawConfigs, event \in {"python", "other"} : ConfigurationChanged(cfg, event)
    \/ \E path \in InterpreterPaths : InterpreterChanged(path)
    \/ \E folders \in WorkspaceFolderLists : WorkspaceFoldersChanged(folders)
    \/ DebounceExpired

Spec == Init /\ [][Next]_vars

\* ------------------------------------------------------------------ claims
\* The scope key an object serves, and whether it still holds change subscriptions.
ScopeKey(s) == KeyOf(objs[s].workspaceRoot)
Live(s) == Subscriptions(listeners, s) > 0
FolderPaths(folders) == {folders.items[i] : i \in 1..Len(folders.items)}
Firings(s) == Cardinality({i \in 1..Len(window.fired) : window.fired[i] = s})
\* The snapshots a getInstance call returned.
Handed(set) == {s \in set : objs[s].constructed}

\* C1: in every reachable state at most one live snapshot (one that still holds
\* its change subscriptions) exists per scope key.
C1_OneLiveSnapshotPerKey ==
    \A s \in Ids : \A t \in Ids :
        ( /\ objs[s].constructed /\ objs[t].constructed
          /\ Live(s) /\ Live(t)
          /\ ScopeKey(s) = ScopeKey(t) ) => s = t

\* C2: a getInstance call whose key is in the registry returns the registered
\* object and constructs nothing, subscribes nothing and leaves the registry as it
\* was; a call that returns leaves its result registered under the key; and only
\* the static dispose, register and a folder-list change take an entry away.  So
\* two calls for one folder with none of those three in between return one object.
C2_SameInstance ==
    [][ steps' # steps =>
          /\ (last'.op = "getInstance" /\ last'.key \in DOMAIN pythonSettings) =>
                /\ ~last'.threw /\ ~last'.created
                /\ last'.ret = pythonSettings[last'.key]
                /\ UNCHANGED << pythonSettings, objs, listeners >>
          /\ (last'.op = "getInstance" /\ ~last'.threw) =>
                /\ last'.key \in DOMAIN pythonSettings'
                /\ pythonSettings'[last'.key] = last'.ret
          /\ last'.op \notin {"dispose", "register", "workspaceFoldersChanged"} =>
                \A key \in DOMAIN pythonSettings :
                    key \in DOMAIN pythonSettings' /\ pythonSettings'[key] = pythonSettings[key]
      ]_vars

\* A second call was answered from the registry: with the first one, which
\* constructed the object, two operations have run.
C2_Witness ==
    /\ steps = 2 /\ Len(objs) = 1
    /\ last.op = "getInstance" /\ ~last.threw /\ ~last.created /\ last.ret = 1

\* C3: once the debounce timer has expired, every snapshot that recomputed on an
\* external event since the timer was started has had its changed event fired.
C3_EverySnapshotNotified ==
    ~changeTimer.pending => \A s \in Handed(window.hit) : Firings(s) >= 1

\* C4: once the debounce window of a burst of configuration notifications has
\* closed, the changed event of a snapshot that recomputed on them has fired
\* exactly once.
C4_ExactlyOneFiring ==
    ~changeTimer.pending => \A s \in Handed(window.cfgHit) : Firings(s) = 1

\* C5: once the debounce timers have expired after some snapshot recomputed on an
\* external event, the process-wide configChanged event has fired.
C5_ProcessWideEventFires ==
    (~changeTimer.pending /\ ~configTimer.pending /\ Handed(window.hit) # {})
        => configChangedFired

\* C6: a successful static dispose leaves the registry empty, it stays empty until
\* a getInstance call returns, and a getInstance call that returns while its key
\* is not registered (so the next one after the reset) returns an object
\* constructed by that call, other than every object that existed before,
\* subscribed, recomputed from the current configuration and registered.
C6_FreshAfterReset ==
    [][ steps' # steps =>
          /\ (last'.op = "dispose" /\ ~last'.threw) => pythonSettings' = EmptyRegistry
          /\ (pythonSettings = EmptyRegistry /\ last'.op # "getInstance") =>
                pythonSettings' = EmptyRegistry
          /\ (last'.op = "getInstance" /\ ~last'.threw
                /\ last'.key \notin DOMAIN pythonSettings) =>
                /\ last'.created
                /\ last'.ret \notin Ids
                /\ last'.ret \in 1..Len(objs')
                /\ Subscriptions(listeners', last'.ret) = 1
                /\ objs'[last'.ret].f =
                       update(InitialFields, config,
                              ObjEnv(objs'[last'.ret], servicePath)).f
                /\ pythonSettings'[last'.key] = last'.ret
      ]_vars

\* Three operations: a snapshot was created, the reset disposed it, and the next
\* getInstance for its key constructed the second one.
C6_Witness ==
    /\ steps = 3 /\ Len(objs) = 2
    /\ objs[1].constructed /\ ~Live(1) /\ ScopeKey(1) = ScopeKey(2)
    /\ last.op = "getInstance" /\ last.created /\ last.ret = 2
    /\ pythonSettings = [key \in {ScopeKey(2)} |-> 2]

\* C7: the static dispose throws exactly when it is called outside a test run,
\* and then it changes nothing: the registry, the subscriptions, the objects and
\* the timers are as before the call.
C7_ResetOutsideTestThrows ==
    [][ (steps' # steps /\ last'.op = "dispose") =>
          /\ last'.threw <=> ~testExecution
          /\ last'.threw =>
                UNCHANGED << pythonSettings, objs, listeners, changeTimer, configTimer,
                             configChangedFired, window >>
      ]_vars

\* The call threw while the registry held a subscribed snapshot.
C7_Witness ==
    /\ last.op = "dispose" /\ last.threw
    /\ pythonSettings # EmptyRegistry
    /\ \E key \in DOMAIN pythonSettings : Live(pythonSettings[key])

\* C8: when a folder-list change with a defined list is handled, every key left
\* in the registry is the path of a current folder (the global key is gone too),
\* and every entry whose key is a current folder path is kept with its object.
C8_FolderChangePrunes ==
    [][ ( /\ workspaceFolders' # workspaceFolders
          /\ Len(listeners) > 0
          /\ workspaceFolders'.k = "arr" ) =>
          /\ DOMAIN pythonSettings' \subseteq FolderPaths(workspaceFolders')
          /\ EmptyStr \notin DOMAIN pythonSettings'
          /\ \A key \in DOMAIN pythonSettings \cap FolderPaths(workspaceFolders') :
                key \in DOMAIN pythonSettings' /\ pythonSettings'[key] = pythonSettings[key]
      ]_vars

\* Of two registered folders one was closed: its entry is gone, the other is kept.
C8_Witness ==
    /\ last.op = "workspaceFoldersChanged" /\ ~last.threw
    /\ Len(objs) = 2 /\ objs[1].constructed /\ objs[2].constructed
    /\ workspaceFolders = Arr(<<FolderA>>)
    /\ DOMAIN pythonSettings = {FolderA}
    /\ {ScopeKey(1), ScopeKey(2)} = {FolderA, FolderB}

\* The global entry was removed by a change to a defined folder list.
C8_WitnessGlobal ==
    /\ last.op = "workspaceFoldersChanged" /\ ~last.threw
    /\ Len(objs) = 1 /\ objs[1].constructed /\ ScopeKey(1) = EmptyStr
    /\ pythonSettings = EmptyRegistry

\* C9: a recompute is all-or-nothing: the fields of a snapshot change in a step
\* only when the recompute of that step completed; when it threw, every field
\* keeps the value it had.
C9_RecomputeAllOrNothing ==
    [][ \A s \in Ids :
          objs'[s].f # objs[s].f =>
              ~update(objs[s].f, config', ObjEnv(objs[s], servicePath')).threw
      ]_vars

\* C10: getInstance never throws, whatever the raw configuration holds and
\* whatever the preferred-executable source returns.
C10_ResolutionNeverThrows ==
    last.op \in {"getInstance", "register"} => ~last.threw

\* ------------------------------------------------- functions called on their own
\* The class is left as constructed by nobody: no object, no listener, no event.
classVars ==
    << pythonSettings, objs, listeners, workspaceFolders, config, hasService,
       servicePath, testExecution, changeTimer, configTimer, configChangedFired,
       window, last, steps >>

ClassIdle ==
    /\ pythonSettings = EmptyRegistry
    /\ objs = << >>
    /\ listeners = << >>
    /\ workspaceFolders = Undefined
    /\ config = CfgDefault
    /\ hasService = FALSE
    /\ servicePath = Undefined
    /\ testExecution = FALSE
    /\ changeTimer = IdleTimer
    /\ configTimer = IdleTimer
    /\ configChangedFired = FALSE
    /\ window = EmptyWindow
    /\ last = Outcome("init", FALSE)
    /\ steps = 0

\* ---- getSettingsUriAndTarget and the key getInstance derives from it
FolderC == Str(TRUE, <<"c">>)

\* Resources: none, files in and under the folders, a folder itself, a file elsewhere.
KeyResources ==
    { Undefined, Str(TRUE, <<"a", "f.py">>), Str(TRUE, <<"a", "pkg", "g.py">>),
      Str(TRUE, <<"b", "f.py">>), Str(TRUE, <<"b">>), Str(TRUE, <<"c", "f.py">>),
      Str(TRUE, <<"d", "f.py">>), Str(TRUE, <<"f.py">>) }

\* workspace.workspaceFolders: undefined, empty, and lists in either order.
KeyFolderLists ==
    { Undefined, Arr(<< >>), Arr(<<FolderA>>), Arr(<<FolderB>>), Arr(<<FolderC>>),
      Arr(<<FolderA, FolderB>>), Arr(<<FolderB, FolderA>>), Arr(<<FolderC, FolderA>>) }

KeyInit ==
    /\ ClassIdle
    /\ \E resource \in KeyResources, folders \in KeyFolderLists :
          call = [ fn |-> "getSettingsUriAndTarget", resource |-> resource,
                   folders |-> folders, returned |-> FALSE, key |-> EmptyStr ]

\* The first three statements of getInstance: the uri and the key made of it.
ComputeKey ==
    /\ ~call.returned
    /\ call' = [call EXCEPT !.returned = TRUE,
                            !.key = KeyOf(getSettingsUriAndTarget(call.resource, call.folders))]
    /\ UNCHANGED classVars

KeyNext == ComputeKey

SpecKey == KeyInit /\ [][KeyNext]_vars

\* ------------------------------------------------------------- claims C11..
\* The folders of the list that contain the resource.
Containing(resource, folders) ==
    IF folders.k # "arr" \/ resource.k # "str" THEN {}
    ELSE {folders.items[i] : i \in {j \in 1..Len(folders.items) :
                                       IsPrefix(folders.items[j].segs, resource.segs)}}

\* C11 as stated: the key is the root of the folder that contains the resource, and
\* the global key when no folder contains it or no workspace is open.
C11_KeyIsContainingFolderOrGlobal ==
    call.returned =>
        IF Containing(call.resource, call.folders) # {}
        THEN call.key \in Containing(call.resource, call.folders)
        ELSE call.key = EmptyStr

\* C11 amended: the key is the root of the folder that contains the resource; when
\* no folder contains it (or no resource is given) the key is the root of the first
\* workspace folder, and the global key only when no folder is open.
C11_KeyFallsBackToFirstFolder ==
    call.returned =>
        IF Containing(call.resource, call.folders) # {}
        THEN call.key \in Containing(call.resource, call.folders)
        ELSE IF call.folders.k = "arr" /\ Len(call.folders.items) > 0
        THEN call.key = call.folders.items[1]
        ELSE call.key = EmptyStr

\* A file outside both open folders was given the key of the first folder.
C11_Witness ==
    /\ call.returned
    /\ call.resource = Str(TRUE, <<"d", "f.py">>)
    /\ call.folders = Arr(<<FolderB, FolderA>>)
    /\ call.key = FolderB

\* ---- getPythonExecutable on a candidate, a disk and a platform
\* The files a disk may hold.
ExeFiles ==
    { Str(TRUE, <<"opt", "env", "python3">>),
      Str(TRUE, <<"opt", "env", "bin", "python">>),
      Str(TRUE, <<"opt", "env", "bin", "python3.8">>),
      Str(TRUE, <<"opt", "env", "Scripts", "python.exe">>),
      Str(TRUE, <<"opt", "env", "python3.exe">>),
      Str(TRUE, <<"opt", "env", "Python.exe">>),
      Str(TRUE, <<"home", "u", "env", "bin", "python3">>),
      Str(FALSE, <<"venv", "bin", "python3">>) }

\* Candidates: directories (absolute, under ~, bare, "env/env", one with nothing
\* in it), the bare command, and files.
ExeCandidates ==
    { Str(TRUE, <<"opt", "env">>), HomeStr(<<"env">>), Bare("venv"), Bare("python"),
      Str(FALSE, <<"env", "env">>), Str(TRUE, <<"opt", "none">>),
      Str(TRUE, <<"opt", "env", "bin", "python">>),
      Str(TRUE, <<"opt", "env", "Python.exe">>) }

\* A call that has not returned.
Pending == [returned |-> FALSE, v |-> Undefined]
Done(v) == [returned |-> TRUE, v |-> v]

ExeInit ==
    /\ ClassIdle
    /\ \E pythonPath \in ExeCandidates, files \in SUBSET ExeFiles, win \in BOOLEAN :
          call = [ fn |-> "getPythonExecutable", pythonPath |-> pythonPath,
                   fileSystem |-> files, windows |-> win,
                   out |-> Pending, again |-> Pending ]

\* getPythonExecutable(pythonPath)
ResolveExecutable ==
    /\ ~call.out.returned
    /\ call' = [call EXCEPT !.out =
                   Done(getPythonExecutable(call.pythonPath, call.fileSystem, call.windows).v)]
    /\ UNCHANGED classVars

\* getPythonExecutable on the result of the first call, the disk unchanged.
ResolveExecutableAgain ==
    /\ call.out.returned /\ ~call.again.returned
    /\ call' = [call EXCEPT !.again =
                   Done(getPythonExecutable(call.out.v, call.fileSystem, call.windows).v)]
    /\ UNCHANGED classVars

ExeNext == ResolveExecutable \/ ResolveExecutableAgain

SpecExecutable == ExeInit /\ [][ExeNext]_vars

\* The candidate with a leading ~ expanded.
Expanded(p) == IF p.home THEN Str(TRUE, <<"home", "u">> \o p.segs) ELSE p

\* The probes in their order: rank 2i-1 is <dir>/<name i>, rank 2i the
\* subdirectory layout of the platform with the same name.
ProbeRanks == 1..(2 * Len(KnownPythonExecutables))
ProbeAt(dir, rank, win) ==
    LET i == (rank + 1) \div 2
        name == IF win THEN Exe(KnownPythonExecutables[i]) ELSE KnownPythonExecutables[i]
    IN  IF rank % 2 = 1 THEN Str(dir.abs, dir.segs \o <<name>>)
        ELSE Str(dir.abs, dir.segs \o <<IF win THEN "Scripts" ELSE "bin", name>>)

\* The ranks whose probe exists on the disk of the call.
Found(dir) == {rank \in ProbeRanks : ProbeAt(dir, rank, call.windows) \in call.fileSystem}

\* The candidate is itself a usable executable.
SelfValid == isValidPythonPath(Expanded(call.pythonPath), call.fileSystem, call.windows)

\* The candidate is taken as a command or left alone: 'python', a name without a
\* separator, or a path whose basename equals its dirname.
LeftAlone ==
    LET u == Expanded(call.pythonPath)
    IN  u = Bare("python") \/ (~u.abs /\ Len(u.segs) <= 1) \/ BasenameIsDirname(u)

C12_WitnessSingle ==
    /\ call.fn = "getPythonExecutable" /\ call.out.returned
    /\ call.pythonPath = Str(TRUE, <<"opt", "env">>) /\ ~call.windows
    /\ call.fileSystem = { Str(TRUE, <<"opt", "env", "bin", "python3.8">>) }
    /\ call.out.v = Str(TRUE, <<"opt", "env", "bin", "python3.8">>)

\* C13 as stated: with no known executable under the candidate the result is the
\* candidate unchanged, and a second call on the result returns the result.
C13_UnchangedAndIdempotent ==
    /\ (call.fn = "getPythonExecutable" /\ call.out.returned
           /\ Found(Expanded(call.pythonPath)) = {}) => call.out.v = call.pythonPath
    /\ (call.fn = "getPythonExecutable" /\ call.again.returned) => call.again.v = call.out.v

\* C13 amended: with no known executable under the candidate the result is the
\* candidate with a leading ~ expanded to the home directory and otherwise
\* unchanged, and a second call on the result returns the result.
C13_ExpandedAndIdempotent ==
    /\ (call.fn = "getPythonExecutable" /\ call.out.returned
           /\ Found(Expanded(call.pythonPath)) = {}) =>
           call.out.v = Expanded(call.pythonPath)
    /\ (call.fn = "getPythonExecutable" /\ call.again.returned) => call.again.v = call.out.v

\* A directory with nothing known under it, on a disk that holds files elsewhere,
\* came back as it was from both calls.
C13_Witness ==
    /\ call.fn = "getPythonExecutable" /\ call.again.returned
    /\ call.pythonPath = Str(TRUE, <<"opt", "none">>)
    /\ Str(TRUE, <<"opt", "env", "bin", "python">>) \in call.fileSystem
    /\ call.out.v = call.pythonPath /\ call.again.v = call.pythonPath

\* A probe found by the first call came back from the second.
C13_WitnessFound ==
    /\ call.fn = "getPythonExecutable" /\ call.again.returned
    /\ call.pythonPath = Str(TRUE, <<"opt", "env">>)
    /\ call.out.v # call.pythonPath /\ call.again.v = call.out.v

\* ---- getAbsolutePath on a string, a root directory and the test flag
\* Strings: command names, the empty string, "~", paths under ~, relative, absolute.
AbsPaths ==
    { Bare("python"), Bare("conda"), Bare("state"), EmptyStr, HomeStr(<< >>),
      HomeStr(<<"bin", "pipenv">>), Str(FALSE, <<"tools", "conda">>),
      Str(TRUE, <<"opt", "poetry">>), Str(FALSE, <<"venv", "bin", "python">>) }

\* this.workspaceRoot?.fsPath
AbsRoots == { Undefined, EmptyStr, FolderA, FolderB }

AbsInit ==
    /\ ClassIdle
    /\ \E pathToCheck \in AbsPaths, rootDir \in AbsRoots, test \in BOOLEAN :
          call = [ fn |-> "getAbsolutePath", pathToCheck |-> pathToCheck,
                   rootDir |-> rootDir, test |-> test, out |-> Pending ]

\* getAbsolutePath(pathToCheck, rootDir)
Absolutize ==
    /\ ~call.out.returned
    /\ call' = [call EXCEPT !.out =
                   Done(getAbsolutePath(call.pathToCheck, call.rootDir, call.test).v)]
    /\ UNCHANGED classVars

AbsNext == Absolutize

SpecAbsolute == AbsInit /\ [][AbsNext]_vars

\* The string holds no path-separator character: a single name, "", or "~".
NoSeparator(p) == ~p.abs /\ (IF p.home THEN p.segs = << >> ELSE Len(p.segs) <= 1)

\* C14 as stated: a string without a path separator is returned unchanged, whatever
\* the root directory.
C14_BareNameUnchanged ==
    (call.fn = "getAbsolutePath" /\ call.out.returned /\ NoSeparator(call.pathToCheck))
        => call.out.v = call.pathToCheck

\* C14 amended: a string without a path separator other than "~" is returned
\* unchanged, whatever the root directory, except the empty string under a test
\* run (which yields the root directory).
C14_CommandNameUnchanged ==
    ( /\ call.fn = "getAbsolutePath" /\ call.out.returned
      /\ NoSeparator(call.pathToCheck)
      /\ ~call.pathToCheck.home
      /\ ~(call.test /\ call.pathToCheck = EmptyStr) )
        => call.out.v = call.pathToCheck

\* 'conda' with root /a came back as 'conda'.
C14_Witness ==
    /\ call.fn = "getAbsolutePath" /\ call.out.returned
    /\ call.pathToCheck = Bare("conda") /\ call.rootDir = FolderA
    /\ call.out.v = Bare("conda")

\* ---- the shell-detector chain over IShellDetector objects
\* TerminalShellType values a detector may return, and undefined.
ShellGuesses == {"undefined", "bash", "powershell", "other"}

\* An IShellDetector on one input: its priority and what identify() returns there.
Detector(priority, guess) == [priority |-> priority, guess |-> guess]

\* Registered detectors: up to MaxDetectors of them, in any registration order,
\* with distinct priorities.
DetectorLists ==
    UNION { { ds \in [1..n -> [priority : 1..MaxDetectors, guess : ShellGuesses]] :
                \A i \in 1..n : \A j \in 1..n : ds[i].priority = ds[j].priority => i = j }
            : n \in 1..MaxDetectors }

ShellInit ==
    /\ ClassIdle
    /\ \E ds \in DetectorLists :
          call = [ fn |-> "identifyTerminalShell", detectors |-> ds, tried |-> {},
                   done |-> FALSE, result |-> "undefined" ]

\* A chain that starts with the lowest priority.
NextDetectorLowestFirst(ds, tried) ==
    CHOOSE i \in (1..Len(ds)) \ tried :
        \A j \in (1..Len(ds)) \ tried : ds[i].priority <= ds[j].priority

\* The detector the chain runs next: of those not run yet, the one of highest priority.
NextDetector(ds, tried) ==
    CHOOSE i \in (1..Len(ds)) \ tried :
        \A j \in (1..Len(ds)) \ tried : ds[i].priority >= ds[j].priority

\* The chain runs the next detector and returns its guess unless it is undefined.
IdentifyNext ==
    /\ ~call.done /\ call.tried # 1..Len(call.detectors)
    /\ LET i == NextDetector(call.detectors, call.tried)
       IN  call' = IF call.detectors[i].guess # "undefined"
                   THEN [call EXCEPT !.done = TRUE, !.result = call.detectors[i].guess,
                                     !.tried = @ \cup {i}]
                   ELSE [call EXCEPT !.tried = @ \cup {i}]
    /\ UNCHANGED classVars

\* Every detector returned undefined: so does the chain.
IdentifyNone ==
    /\ ~call.done /\ call.tried = 1..Len(call.detectors)
    /\ call' = [call EXCEPT !.done = TRUE, !.result = "undefined"]
    /\ UNCHANGED classVars

ShellNext == IdentifyNext \/ IdentifyNone

SpecShell == ShellInit /\ [][ShellNext]_vars

\* C15: the chain returns the guess of the highest-priority detector whose guess
\* is not undefined: a detector's guess is returned only when every detector of
\* higher priority returned undefined, and the result is undefined only when all
\* detectors returned undefined.
C15_HighestPriorityGuessWins ==
    (call.fn = "identifyTerminalShell" /\ call.done) =>
        IF \A i \in 1..Len(call.detectors) : call.detectors[i].guess = "undefined"
        THEN call.result = "undefined"
        ELSE \E i \in 1..Len(call.detectors) :
                /\ call.detectors[i].guess # "undefined"
                /\ call.result = call.detectors[i].guess
                /\ \A j \in 1..Len(call.detectors) :
                      call.detectors[j].priority > call.detectors[i].priority
                          => call.detectors[j].guess = "undefined"

\* The detector registered first has the lowest priority and the only guess; the
\* two of higher priority returned undefined and the chain returned that guess.
C15_Witness ==
    /\ call.fn = "identifyTerminalShell" /\ call.done
    /\ call.detectors = << Detector(1, "bash"), Detector(3, "undefined"),
                           Detector(2, "undefined") >>
    /\ call.result = "bash"

\* Two detectors have a guess and the one of higher priority, registered last, won.
C15_WitnessTwoGuesses ==
    /\ call.fn = "identifyTerminalShell" /\ call.done
    /\ call.detectors = << Detector(1, "bash"), Detector(2, "powershell") >>
    /\ call.result = "powershell" /\ call.tried = {2}

\* ---- the class again
\* C16: a successful static dispose leaves no snapshot created before it with a
\* subscription, the ones dropped from the registry earlier by a folder-list
\* change or by register() included.
C16_ResetReleasesEverySnapshot ==
    [][ (steps' # steps /\ last'.op = "dispose" /\ ~last'.threw) =>
            \A s \in Ids : objs[s].constructed => Subscriptions(listeners', s) = 0
      ]_vars

\* C17: initialize() on an initialized snapshot, through register(), leaves the
\* subscriptions of every snapshot as they were.
C17_RegisterKeepsSubscriptions ==
    [][ (steps' # steps /\ last'.op = "register") =>
            \A s \in Ids : Subscriptions(listeners', s) = Subscriptions(listeners, s)
      ]_vars

\* C18: a configuration change event that does not affect the python section
\* changes no field of any snapshot, not the registry, the subscriptions, the
\* pending notifications or what has fired.
C18_OtherNamespaceIsNoOp ==
    [][ (steps' # steps /\ last'.op = "otherConfigurationChanged") =>
            UNCHANGED << pythonSettings, objs, listeners, changeTimer, configTimer,
                         configChangedFired, window >>
      ]_vars

\* The event reached two subscribed snapshots while a notification was pending.
C18_Witness ==
    /\ last.op = "otherConfigurationChanged"
    /\ Len(objs) = 2 /\ Live(1) /\ Live(2)
    /\ changeTimer.pending

\* Snapshot s was recomputed in this step and the recompute completed: it is new,
\* or its fields changed, and they are what update makes of the ones before.
Recomputed(s) ==
    LET r == update(IF s \in Ids THEN objs[s].f ELSE InitialFields, config',
                    ObjEnv(objs'[s], servicePath'))
    IN  /\ s \in Ids => objs'[s].f # objs[s].f
        /\ ~r.threw
        /\ objs'[s].f = r.f

\* A string that is an absolute path or a name without a separator.
AbsoluteOrBare(v) == v.abs \/ (~v.home /\ Len(v.segs) <= 1)

PathFields ==
    { "pythonPath", "defaultInterpreterPath", "activeStateToolPath", "condaPath",
      "pipenvPath", "poetryPath", "envFile", "venvPath" }

\* C19: after a recompute that completed, every path field that holds a string
\* holds an absolute path or a bare name.
C19_PathFieldsAbsoluteOrBare ==
    [][ \A s \in 1..Len(objs') :
            Recomputed(s) =>
                \A name \in PathFields :
                    IsStr(objs'[s].f[name]) => AbsoluteOrBare(objs'[s].f[name])
      ]_vars

\* C20: after a recompute that completed, venvFolders and devOptions are sequences.
C20_ListFieldsAreSequences ==
    [][ \A s \in 1..Len(objs') :
            Recomputed(s) =>
                /\ objs'[s].f.venvFolders.k = "arr"
                /\ objs'[s].f.devOptions.k = "arr"
      ]_vars

\* this.terminal of snapshot s has been bound to an object.
TerminalAssigned(s) == objs[s].f.terminalRef >= 1 /\ Truthy(objs[s].f.terminal)

\* Snapshot s, which existed before this step, had its fields changed by the step
\* and update on the new raw configuration does not throw.
RecomputeCompleted(s) ==
    /\ objs'[s].f # objs[s].f
    /\ ~update(objs[s].f, config', ObjEnv(objs'[s], servicePath')).threw

\* The fields of the newly resolved raw terminal value are the fields of t.
HoldsResolved(t, raw, workspaceRoot) ==
    LET terminalSettings == resolveAny(raw, workspaceRoot)
    IN  terminalSettings.k = "obj" =>
            /\ t.k = "obj"
            /\ \A n \in DOMAIN terminalSettings.f :
                   n \in DOMAIN t.f /\ t.f[n] = terminalSettings.f[n]

\* C21: once this.terminal of a snapshot is bound to an object, no step binds it
\* to another object, and after every recompute that completes the object holds
\* the fields of the newly resolved raw terminal value.
C21_TerminalMergedInPlace ==
    [][ \A s \in Ids :
            TerminalAssigned(s) =>
                /\ objs'[s].f.terminalRef = objs[s].f.terminalRef
                /\ RecomputeCompleted(s) =>
                       HoldsResolved(objs'[s].f.terminal, config'.terminal,
                                     objs'[s].workspaceRoot)
      ]_vars

\* The first object this.terminal was bound to holds a field of the customised
\* configuration it was created from and the value the default configuration
\* gave the other field afterwards: the second recompute wrote into the object.
C21_Witness ==
    /\ Len(objs) >= 1 /\ Live(1)
    /\ config = CfgDefault
    /\ objs[1].f.terminalRef = 1
    /\ objs[1].f.terminal = Obj([activateEnvironment |-> Bool(TRUE),
                                 executeInFileDir |-> Bool(TRUE)])

====
